---- MODULE Spec2Model ----
(***************************************************************************)
(* Per-guild playback queue of the Discord music bot: the module-level     *)
(* registries of player/queue_manager.py, the play / pause / resume /      *)
(* stop / skip commands of commands/playback_commands.py, the queue        *)
(* commands of commands/queue_commands.py, join / leave of                 *)
(* commands/voice_commands.py and playlist resolution of                   *)
(* player/ytdl_source.py.                                                  *)
(*                                                                         *)
(* Execution model.  Command coroutines and play_next run on one asyncio   *)
(* event loop: a piece of code between two awaits that really suspend is   *)
(* one atomic action.  The voice client's player runs on its own thread;   *)
(* when the player ends, that thread calls handle_playback_completion,     *)
(* which posts play_next back onto the loop.                               *)
(*                                                                         *)
(* The voice client (discord.VoiceClient) is the transport collaborator:   *)
(*   play(src, after)  raises when not connected, raises when is_playing() *)
(*                     ("Already playing audio"), otherwise installs a new *)
(*                     player thread for src; `after` is called once when  *)
(*                     that thread ends (naturally, on error, or stop()).  *)
(*   is_playing()      a player exists, is not ended and is not paused.    *)
(*   is_paused()       a player exists, is not ended and is paused.        *)
(*   stop()            ends the player and forgets it.                     *)
(*   disconnect()      stop(), then guild.voice_client becomes None.       *)
(* queue_manager.play_next hands the queued SongInfo itself to play(); it  *)
(* never builds the stream with SongInfo.create_source.  Whether play()    *)
(* takes that object or raises is decided outside this repository, so the  *)
(* outcome is a choice (accept) made at each call.                         *)
(***************************************************************************)
EXTENDS Integers, Sequences, FiniteSets, TLC

\* ---------------------------------------------------------------- bounds
\* Number of SongInfo objects created in one run.
MaxTracks == 3
\* Number of play commands that may be in flight at once.
MaxCmds == 1
\* Longest playlist the extractor returns.
MaxEntries == 2
\* Longest URL, in parts.
MaxUrlLen == 4
\* Longest text given to the play command, in pieces.
MaxQueryLen == 2

\* ------------------------------------------------------- program constants
\* config.py: DEFAULT_VOLUME = 0.05; volumes are kept in hundredths.
DEFAULT_VOLUME == 5

\* The guilds the bot serves; a run issues commands in the guilds of `scope`.
Guilds == {"g1", "g2"}
\* The play commands that can be under way at the same time; a run issues
\* the commands of `scope.cmds`.
Cmds == 1..(MaxCmds + 1)
OneAtATime == 1..MaxCmds

\* SongInfo: url identity (id), captured volume, and the playlist entry
\* whose flat dict it carries as data (0: data is None).
NoTrack == [id |-> 0, vol |-> 0, entry |-> 0]

SongInfo(id, volume, entry) == [id |-> id, vol |-> volume, entry |-> entry]

\* SongInfo.__init__: the title shown for a queued track is the entry's
\* title when data is given and the "Loading..." sentinel otherwise.
Title(t) == IF t.entry # 0 THEN <<"entry", t.entry>> ELSE <<"Loading...">>

VARIABLES
    queues,         \* queue_manager.queues: dict guild -> deque of SongInfo
    volumes,        \* queue_manager.volumes: dict guild -> volume
    vc,             \* guild.voice_client and its player
    orphans,        \* paused players replaced by a later play() call
    cbThread,       \* completion callbacks running on a player thread
    cbPosted,       \* play_next coroutines posted to the loop by a callback
    cleanupPosted,  \* cleanup_voice_client coroutines posted to the loop
    cmd,            \* play commands in flight
    nextId,         \* next SongInfo identity
    started,        \* history: ids of the tracks the transport started, in order
    enq,            \* history: tracks appended since the last pop or clear
    owed,           \* history: completions invoked minus play_next runs they caused
    contended,      \* history: completion advances that were pending while
                    \*          another play_next popped a track and started it,
                    \*          and have not run yet
    last,           \* history: the last watched operation and its outcome
    watch,          \* the operations whose outcome `last` records
    scope           \* the guilds in which commands are issued in this run,
                    \* the number of SongInfo objects the run creates and
                    \* the play commands that may overlap in it

vars == <<queues, volumes, vc, orphans, cbThread, cbPosted, cleanupPosted,
          cmd, nextId, started, enq, owed, contended, last, watch, scope>>

\* Histories that only play_next, the appends and clear change.
hist == <<started, enq, contended>>
\* The completion path.
compl == <<cbThread, cbPosted, cleanupPosted, owed>>

IdleCmd == [pc |-> "idle", g |-> "g1", kind |-> "none", vol |-> 0,
            stale |-> FALSE, mine |-> <<>>]

\* The record kept in `last`: operation, guild, outcome, whether the guild
\* was idle, connected and held exactly the command's own tracks when the
\* operation ran, (playlist resolution) the entries and skip reasons, and
\* (volume) the percentage given or shown.
Ev(op, g, res) == [op |-> op, g |-> g, res |-> res, pre |-> FALSE,
                   kind |-> "none", entries |-> <<>>, skipped |-> <<>>,
                   added |-> <<>>, err |-> FALSE, val |-> 0]

\* What `last` holds after an operation that is not watched.
Quiet == Ev("other", "g1", "none")

\* The new value of `last` after an operation with record ev; the set of
\* watched operations and the scope of the run never change.
Record(ev) ==
    /\ last' = IF ev.op \in watch THEN ev ELSE Quiet
    /\ watch' = watch
    /\ scope' = scope

NoVoice == [present |-> FALSE, player |-> "none", source |-> NoTrack]

\* The state after the modules are loaded: both registries are empty and no
\* guild has a voice client.  w: the watched operations; s: the scope.
Start(w, s) ==
    /\ queues = << >>
    /\ volumes = << >>
    /\ vc = [g \in Guilds |-> NoVoice]
    /\ orphans = [g \in Guilds |-> 0]
    /\ cbThread = [g \in Guilds |-> [e \in BOOLEAN |-> 0]]
    /\ cbPosted = [g \in Guilds |-> [e \in BOOLEAN |-> 0]]
    /\ cleanupPosted = [g \in Guilds |-> 0]
    /\ cmd = [c \in Cmds |-> IdleCmd]
    /\ nextId = 1
    /\ started = [g \in Guilds |-> <<>>]
    /\ enq = [g \in Guilds |-> <<>>]
    /\ owed = [g \in Guilds |-> 0]
    /\ contended = [g \in Guilds |-> 0]
    /\ last = Quiet
    /\ watch = w
    /\ scope = s

Init ==
    Start({"play_check", "advance", "playlist"},
          [guilds |-> {"g1"}, tracks |-> MaxTracks, cmds |-> OneAtATime])

\* ------------------------------------------------------------ transport
is_playing(g) == vc[g].present /\ vc[g].player = "playing"
is_paused(g) == vc[g].present /\ vc[g].player = "paused"
is_connected(g) == vc[g].present

\* A player thread that has not ended yet has a completion callback to give.
Alive(g) == vc[g].player \in {"playing", "paused"}

\* The queue as the dict lookup of the code sees it.
QueueOf(g) == IF g \in DOMAIN queues THEN queues[g] ELSE <<>>

\* ----------------------------------------------------------- voice commands
\* VoiceCommands.join: channel.connect() gives the guild a voice client.
Join(g) ==
    /\ ~vc[g].present
    /\ vc' = [vc EXCEPT ![g] = [present |-> TRUE, player |-> "none", source |-> NoTrack]]
    /\ Record(Ev("join", g, "ok"))
    /\ UNCHANGED <<queues, volumes, orphans, compl, cmd, nextId, hist>>

\* Play commands of guild g that hold a reference to the voice client.
Holders(g) == {c \in Cmds : cmd[c].pc # "idle" /\ cmd[c].g = g}

\* VoiceClient.disconnect(): stop() ends a live player, whose thread then
\* calls `after`; guild.voice_client becomes None.  Commands that captured
\* the old client keep a reference to an object that plays nothing.
disconnect(g) ==
    /\ vc' = [vc EXCEPT ![g] = NoVoice]
    /\ cbThread' = IF Alive(g) THEN [cbThread EXCEPT ![g][FALSE] = @ + 1] ELSE cbThread
    /\ owed' = IF Alive(g) THEN [owed EXCEPT ![g] = @ + 1] ELSE owed
    /\ cmd' = [c \in Cmds |-> IF c \in Holders(g) THEN [cmd[c] EXCEPT !.stale = TRUE] ELSE cmd[c]]

\* VoiceCommands.leave
Leave(g) ==
    /\ IF vc[g].present
       THEN disconnect(g) /\ Record(Ev("leave", g, "ok"))
       ELSE /\ Record(Ev("leave", g, "not_connected"))
            /\ UNCHANGED <<vc, cbThread, owed, cmd>>
    /\ UNCHANGED <<queues, volumes, orphans, cbPosted, cleanupPosted, nextId, hist>>

\* --------------------------------------------------------------- play_next
\* Mutant of popleft: deque.pop(), the song is taken from the tail.
popleft_Tail(q) == [song |-> q[Len(q)], rest |-> SubSeq(q, 1, Len(q) - 1)]

\* deque.popleft(): the song taken and what stays queued.
popleft(q) == [song |-> Head(q), rest |-> Tail(q)]
NextSong(q) == popleft(q).song
Rest(q) == popleft(q).rest

PlayNextResult_NoConnectionTest(g, accept) ==
    IF g \in DOMAIN queues /\ queues[g] # <<>>
    THEN IF is_playing(g) THEN "raised_busy"
         ELSE IF accept THEN "started" ELSE "raised_source"
    ELSE "queue_empty"

\* The outcome of one run of queue_manager.play_next.
PlayNextResult(g, accept) ==
    IF g \in DOMAIN queues /\ queues[g] # <<>>
    THEN IF vc[g].present /\ is_connected(g)
         THEN IF is_playing(g) THEN "raised_busy"
              ELSE IF accept THEN "started" ELSE "raised_source"
         ELSE "not_connected"
    ELSE "queue_empty"

Popped(r) == r \in {"started", "raised_busy", "raised_source"}
Raised(r) == r \in {"raised_busy", "raised_source"}

\* Completion callbacks of guild g whose play_next has not run yet.
PendingAdvances(g) ==
    cbThread[g][TRUE] + cbThread[g][FALSE] + cbPosted[g][TRUE] + cbPosted[g][FALSE]

\* queue_manager.play_next up to its first await (the ctx.send after play).
\* fromTask: the run is the one a completion callback posted.
play_next(g, accept, fromTask) ==
    LET r == PlayNextResult(g, accept)
        others == PendingAdvances(g) - (IF fromTask THEN 1 ELSE 0) IN
    /\ queues' = IF Popped(r) THEN [queues EXCEPT ![g] = Rest(@)] ELSE queues
    /\ vc' = IF r = "started"
             THEN [vc EXCEPT ![g].player = "playing", ![g].source = NextSong(queues[g])]
             ELSE vc
    /\ orphans' = IF r = "started" /\ is_paused(g)
                  THEN [orphans EXCEPT ![g] = @ + 1] ELSE orphans
    /\ started' = IF r = "started"
                  THEN [started EXCEPT ![g] = Append(@, NextSong(queues[g]).id)]
                  ELSE started
    /\ enq' = IF Popped(r) THEN [enq EXCEPT ![g] = <<>>] ELSE enq
    /\ contended' = IF r = "started"
                    THEN [contended EXCEPT ![g] = others]
                    ELSE IF fromTask /\ contended[g] > 0
                         THEN [contended EXCEPT ![g] = @ - 1]
                         ELSE contended

\* ------------------------------------------------------------ play command
\* Play commands that are past the not-connected check and have not yet
\* created their SongInfo objects.
Unresolved == {c \in Cmds : cmd[c].pc \in {"typing", "extracting"}}

\* SongInfo objects that may still be created.
Room == scope.tracks - (nextId - 1)

\* dict entry creation: `if server_id not in d: d[server_id] = v`.
setdefault(d, g, v) == IF g \in DOMAIN d THEN d ELSE (g :> v) @@ d

\* Mutant of NoVoiceClient: the check is missing.
NoVoiceClient_Unchecked(g) == FALSE

\* PlaybackCommands.play line 54: `if not voice_channel`.
NoVoiceClient(g) == ~vc[g].present

\* PlaybackCommands.play, lines 46-69: the connection check and the
\* creation of the guild's queue and volume entries, up to ctx.typing().
PlayInvoke(c, g, kind) ==
    /\ cmd[c].pc = "idle"
    /\ \A d \in Cmds : d < c => cmd[d].pc # "idle"
    /\ IF NoVoiceClient(g)
       THEN /\ Record(Ev("play", g, "not_connected"))
            /\ UNCHANGED <<queues, volumes, cmd>>
       ELSE /\ Room > Cardinality(Unresolved)
            /\ queues' = setdefault(queues, g, <<>>)
            /\ volumes' = setdefault(volumes, g, DEFAULT_VOLUME)
            /\ cmd' = [cmd EXCEPT ![c] = [pc |-> "typing", g |-> g, kind |-> kind,
                                          vol |-> 0, stale |-> FALSE, mine |-> <<>>]]
            /\ Record(Ev("play", g, "invoked"))
    /\ UNCHANGED <<vc, orphans, compl, nextId, hist>>

\* Mutant of from_url: the volume is not passed on and the SongInfo gets
\* the default of its constructor, 0.5.
from_url_DefaultVolume(id, volume) == SongInfo(id, 50, 0)

\* YTDLSource.from_url with create_source=False: the music host is
\* replaced and a SongInfo without data is made; nothing is extracted.
from_url(id, volume) == SongInfo(id, volume, 0)

\* Mutant of append_all: deque.appendleft for each song in turn.
RECURSIVE append_all_Left(_, _)
append_all_Left(q, songs) ==
    IF songs = <<>> THEN q ELSE append_all_Left(<<Head(songs)>> \o q, Tail(songs))

\* Mutant of append_all: the first song goes to the front of the queue and
\* the others to its end.
append_all_Spread(q, songs) ==
    IF songs = <<>> THEN q ELSE <<Head(songs)>> \o q \o Tail(songs)

\* deque.append for a list of songs, in order.
append_all(q, songs) == q \o songs

\* PlaybackCommands.play, lines 136-153: a single song is made and appended;
\* the command then suspends in ctx.send("Added to queue").
\* usable: whether an extraction of the query would give a playable video
\* (FALSE: private, deleted, or nothing returned); from_url is called with
\* create_source=False and extracts nothing, so the outcome is the same.
PlaySingle(c, usable) ==
    LET g == cmd[c].g
        song_info == from_url(nextId, volumes[g]) IN
    /\ cmd[c].pc = "typing"
    /\ cmd[c].kind = "single"
    /\ queues' = [queues EXCEPT ![g] = append_all(@, <<song_info>>)]
    /\ nextId' = nextId + 1
    /\ enq' = [enq EXCEPT ![g] = @ \o <<song_info>>]
    /\ cmd' = [cmd EXCEPT ![c].pc = "added", ![c].mine = <<song_info>>]
    /\ Record([usable |-> usable]
              @@ [Ev("play_append", g, "added") EXCEPT !.kind = "single",
                                                       !.added = <<song_info>>])
    /\ UNCHANGED <<volumes, vc, orphans, compl, started, contended>>

\* Mutant of NothingPlaying: the paused state is not looked at and the
\* test on is_playing is inverted.
NothingPlaying_Inverted(c) == ~cmd[c].stale /\ is_playing(cmd[c].g)

\* PlaybackCommands.play line 160, on the voice client the command captured
\* at line 48.
NothingPlaying(c) ==
    cmd[c].stale \/ (~is_playing(cmd[c].g) /\ ~is_paused(cmd[c].g))

\* The guild is connected and idle and its queue holds exactly the tracks
\* this command appended.
IdleWithOwn(c) ==
    LET g == cmd[c].g IN
    /\ vc[g].present /\ ~Alive(g)
    /\ cmd[c].mine # <<>>
    /\ QueueOf(g) = cmd[c].mine

\* PlaybackCommands.play, lines 159-166: start playback when nothing is
\* playing; an exception of play_next is reported by the handler at 164.
PlayCheck(c, accept) ==
    LET g == cmd[c].g
        r == IF NothingPlaying(c) THEN PlayNextResult(g, accept) ELSE "not_started" IN
    /\ cmd[c].pc = "added"
    /\ IF NothingPlaying(c)
       THEN play_next(g, accept, FALSE)
       ELSE UNCHANGED <<queues, vc, orphans, hist>>
    /\ cmd' = [cmd EXCEPT ![c] = IdleCmd]
    /\ Record([Ev("play_check", g, r) EXCEPT !.pre = IdleWithOwn(c),
                                             !.added = cmd[c].mine])
    /\ UNCHANGED <<volumes, compl, nextId>>

\* ------------------------------------------------------ playlist resolution
\* What the flat playlist extraction returns for one entry: a dict with a
\* url ("ok"), a dict with neither url nor webpage_url ("nourl"), or None
\* for an entry whose extraction failed under ignoreerrors ("failed").
EntryKinds == {"ok", "nourl", "failed"}
Playlists == UNION {[1..n -> EntryKinds] : n \in 0..MaxEntries}

\* Entries with their position in the playlist (their title or id).
Numbered(entries) == [i \in 1..Len(entries) |-> [pos |-> i, kind |-> entries[i]]]

\* from_playlist line 348: `[entry for entry in entries if entry]`.
Truthy(numbered) == SelectSeq(numbered, LAMBDA e : e.kind # "failed")

\* from_playlist lines 352-387 with create_source=False: one SongInfo per
\* entry that has a url, one skip message per entry that has none.
RECURSIVE process_entries(_, _, _)
process_entries(numbered, id, volume) ==
    IF numbered = <<>>
    THEN [sources |-> <<>>, skipped |-> <<>>]
    ELSE LET e == Head(numbered)
             rest == process_entries(Tail(numbered),
                                     IF e.kind = "ok" THEN id + 1 ELSE id, volume)
         IN IF e.kind = "ok"
            THEN [sources |-> <<SongInfo(id, volume, e.pos)>> \o rest.sources,
                  skipped |-> rest.skipped]
            ELSE [sources |-> rest.sources,
                  skipped |-> <<e.pos>> \o rest.skipped]

\* Mutant of NoSources: the exception is raised only when a skip message
\* was recorded.
NoSources_OnlySkipped(r) == r.sources = <<>> /\ r.skipped # <<>>

\* from_playlist lines 389-406: no source at all is an exception.
NoSources(r) == r.sources = <<>>

\* YTDLSource.from_playlist after the playlist extraction returned `data`.
\* data.kind: "raise" (extract_info raised), "none" (it returned None),
\* "single" (a dict without entries), "playlist" (a dict with entries).
from_playlist(data, id, volume) ==
    CASE data.kind \in {"raise", "none"} ->
            [raised |-> TRUE, sources |-> <<>>, skipped |-> <<>>]
      [] data.kind = "single" ->
            [raised |-> FALSE, sources |-> <<from_url(id, volume)>>, skipped |-> <<>>]
      [] OTHER ->
            LET r == process_entries(Truthy(Numbered(data.entries)), id, volume) IN
            [raised |-> NoSources(r), sources |-> r.sources, skipped |-> r.skipped]

PlaylistData ==
    {[kind |-> k, entries |-> <<>>] : k \in {"raise", "none", "single"}}
    \cup {[kind |-> "playlist", entries |-> e] : e \in Playlists}

\* PlaybackCommands.play lines 98-109: ctx.send, then from_playlist is called
\* with the guild's volume and suspends in the playlist extraction.
PlaylistCall(c) ==
    /\ cmd[c].pc = "typing"
    /\ cmd[c].kind = "playlist"
    /\ cmd' = [cmd EXCEPT ![c].pc = "extracting", ![c].vol = volumes[cmd[c].g]]
    /\ Record(Ev("playlist_call", cmd[c].g, "extracting"))
    /\ UNCHANGED <<queues, volumes, vc, orphans, compl, nextId, hist>>

\* PlaybackCommands.play lines 103-135 from the return of the extraction:
\* the songs are appended in one go and the command suspends in ctx.send;
\* an exception of from_playlist ends the command in the handler at 164.
PlaylistReturn(c, data) ==
    LET g == cmd[c].g
        r == from_playlist(data, nextId, cmd[c].vol)
        ev == [Ev("playlist", g, IF r.raised THEN "error" ELSE "added")
                 EXCEPT !.kind = data.kind, !.entries = data.entries,
                        !.skipped = r.skipped,
                        !.added = IF r.raised THEN <<>> ELSE r.sources] IN
    /\ cmd[c].pc = "extracting"
    /\ Len(r.sources) <= Room - (Cardinality(Unresolved) - 1)
    /\ IF r.raised
       THEN /\ cmd' = [cmd EXCEPT ![c] = IdleCmd]
            /\ UNCHANGED <<queues, nextId, enq>>
       ELSE /\ queues' = [queues EXCEPT ![g] = append_all(@, r.sources)]
            /\ enq' = [enq EXCEPT ![g] = @ \o r.sources]
            /\ nextId' = nextId + Len(r.sources)
            /\ cmd' = [cmd EXCEPT ![c].pc = "added", ![c].mine = r.sources]
    /\ Record(ev)
    /\ UNCHANGED <<volumes, vc, orphans, compl, started, contended>>

\* ------------------------------------------------------ playback controls
\* VoiceClient.stop() on a live player: the player is forgotten and its
\* thread ends, which invokes the completion callback (without error).
stop_player(g) ==
    /\ vc' = [vc EXCEPT ![g].player = "none", ![g].source = NoTrack]
    /\ cbThread' = [cbThread EXCEPT ![g][FALSE] = @ + 1]
    /\ owed' = [owed EXCEPT ![g] = @ + 1]

\* The condition under which stop and skip act (lines 239 and 268).
CanStop(g) == is_playing(g)

\* The condition under which pause acts (line 187).
CanPause(g) == is_playing(g)

\* Mutant of CanResume: resume acts whenever nothing is playing.
CanResume_NotPlaying(g) == ~is_playing(g)

\* The condition under which resume acts (line 213).
CanResume(g) == is_paused(g)

\* PlaybackCommands.pause
Pause(g) ==
    /\ IF ~vc[g].present
       THEN Record(Ev("pause", g, "not_connected")) /\ UNCHANGED vc
       ELSE IF CanPause(g)
            THEN /\ vc' = [vc EXCEPT ![g].player = "paused"]
                 /\ Record(Ev("pause", g, "ok"))
            ELSE Record(Ev("pause", g, "nothing_playing")) /\ UNCHANGED vc
    /\ UNCHANGED <<queues, volumes, orphans, compl, cmd, nextId, hist>>

\* PlaybackCommands.resume
Resume(g) ==
    /\ IF ~vc[g].present
       THEN Record(Ev("resume", g, "not_connected")) /\ UNCHANGED vc
       ELSE IF CanResume(g)
            THEN /\ vc' = [vc EXCEPT ![g].player = "playing"]
                 /\ Record(Ev("resume", g, "ok"))
            ELSE Record(Ev("resume", g, "nothing_playing")) /\ UNCHANGED vc
    /\ UNCHANGED <<queues, volumes, orphans, compl, cmd, nextId, hist>>

\* The body shared by stop and skip: they differ in the message sent.
StopOrSkip(g, op) ==
    /\ IF ~vc[g].present
       THEN /\ Record(Ev(op, g, "not_connected"))
            /\ UNCHANGED <<vc, cbThread, owed>>
       ELSE IF CanStop(g)
            THEN stop_player(g) /\ Record(Ev(op, g, "ok"))
            ELSE /\ Record(Ev(op, g, "nothing_playing"))
                 /\ UNCHANGED <<vc, cbThread, owed>>
    /\ UNCHANGED <<queues, volumes, orphans, cbPosted, cleanupPosted, cmd,
                   nextId, hist>>

\* PlaybackCommands.stop
Stop(g) == StopOrSkip(g, "stop")

\* PlaybackCommands.skip
Skip(g) == StopOrSkip(g, "skip")

\* Mutant of cleared: the queues of all guilds are emptied.
cleared_All(qs, g) == [x \in DOMAIN qs |-> <<>>]

\* Mutant of cleared: popleft() instead of clear().
cleared_Popleft(qs, g) == [qs EXCEPT ![g] = IF @ = <<>> THEN @ ELSE Tail(@)]

\* queues[server_id].clear() (line 54).
cleared(qs, g) == [qs EXCEPT ![g] = <<>>]

\* QueueCommands.clear_queue
ClearQueue(g) ==
    /\ IF g \in DOMAIN queues
       THEN /\ queues' = cleared(queues, g)
            /\ enq' = [enq EXCEPT ![g] = <<>>]
            /\ Record(Ev("clear", g, "cleared"))
       ELSE /\ Record(Ev("clear", g, "already_empty"))
            /\ UNCHANGED <<queues, enq>>
    /\ UNCHANGED <<volumes, vc, orphans, compl, cmd, nextId, started, contended>>

\* QueueCommands.queue_info: the numbered titles sent, none when the guild
\* has no queue or an empty one.
queue_info(g) ==
    IF g \in DOMAIN queues /\ queues[g] # <<>>
    THEN [i \in 1..Len(queues[g]) |-> <<i, Title(queues[g][i])>>]
    ELSE <<>>

\* QueueCommands.queue_info as a command: the list is sent, or "The queue
\* is empty."; nothing is written.
ShowQueue(g) ==
    /\ Record([Ev("queue", g, IF queue_info(g) = <<>> THEN "empty" ELSE "listed")
                  EXCEPT !.val = Len(queue_info(g))])
    /\ UNCHANGED <<queues, volumes, vc, orphans, compl, cmd, nextId, hist>>

\* ------------------------------------------------------------------ volume
\* Volumes are Python floats.  The model keeps a volume as the number of
\* hundredths h whose quotient h / 100 (an IEEE-754 double) the program
\* holds: DEFAULT_VOLUME is 0.05 and volume_percent / 100 (line 92) is the
\* double nearest to p / 100.
\*
\* Hundredths h of 0..100 for which the double product (h / 100) * 100 is
\* below h: 0.29 * 100 = 28.999999999999996, 0.57 * 100 = 56.99999999999999
\* and 0.58 * 100 = 57.99999999999999.  For every other h of 0..100 the
\* product is h or just above it.
RoundsBelow == {29, 57, 58}

\* QueueCommands.volume line 82: int(volumes[server_id] * 100) truncates.
current_percent(h) == IF h \in RoundsBelow THEN h - 1 ELSE h

\* The percentages given to the volume command in a run.
VolumeInputs == {-1, 0, 29, 100, 101}

\* Mutant of ValidPercent: every percentage is taken.
ValidPercent_Any(p) == TRUE

\* QueueCommands.volume line 87: `0 <= volume_percent <= 100`.
ValidPercent(p) == 0 <= p /\ p <= 100

\* QueueCommands.volume line 98: `voice_client and voice_client.source`.
HasSource(g) == vc[g].present /\ vc[g].source # NoTrack

\* QueueCommands.volume without argument (lines 73-84): the entry is created
\* when missing and the stored volume is shown as a percentage.
ShowVolume(g) ==
    LET vols == setdefault(volumes, g, DEFAULT_VOLUME) IN
    /\ volumes' = vols
    /\ Record([Ev("show_volume", g, "shown")
                  EXCEPT !.val = current_percent(vols[g]),
                         !.pre = /\ last.op = "volume" /\ last.g = g
                                 /\ last.res = "set" /\ last.pre])
    /\ UNCHANGED <<queues, vc, orphans, compl, cmd, nextId, hist>>

\* QueueCommands.volume with a percentage (lines 73-101): the entry is
\* created when missing, the range is checked, the volume is stored and
\* set on the voice client's source when there is one.
\* The record says whether a track was playing or paused when it ran.
Volume(g, p) ==
    LET vols == setdefault(volumes, g, DEFAULT_VOLUME) IN
    /\ IF ValidPercent(p)
       THEN /\ volumes' = [vols EXCEPT ![g] = p]
            /\ vc' = IF HasSource(g) THEN [vc EXCEPT ![g].source.vol = p] ELSE vc
            /\ Record([Ev("volume", g, "set") EXCEPT !.val = p, !.pre = Alive(g)])
       ELSE /\ volumes' = vols
            /\ vc' = vc
            /\ Record([Ev("volume", g, "rejected") EXCEPT !.val = p])
    /\ UNCHANGED <<queues, orphans, compl, cmd, nextId, hist>>

\* --------------------------------------------------------- completion path
\* The player thread reaches the end of the stream, or fails (err): the
\* player is ended (it still holds its source) and `after` is invoked.
TrackEnds(g, err) ==
    /\ is_playing(g)
    /\ vc' = [vc EXCEPT ![g].player = "ended"]
    /\ cbThread' = [cbThread EXCEPT ![g][err] = @ + 1]
    /\ owed' = [owed EXCEPT ![g] = @ + 1]
    /\ Record([Ev("track_end", g, "ended") EXCEPT !.err = err])
    /\ UNCHANGED <<queues, volumes, orphans, cbPosted, cleanupPosted, cmd,
                   nextId, hist>>

\* Mutant of PostsPerCompletion: nothing is posted after an error.
PostsPerCompletion_NotOnError(err) == IF err THEN 0 ELSE 1

\* How many play_next coroutines one completion callback posts (line 73).
PostsPerCompletion(err) == 1

\* The command whose voice_client.stop() directly preceded: "stop", "skip",
\* or "none".
StoppedBy(g) ==
    IF last.op \in {"stop", "skip"} /\ last.g = g /\ last.res = "ok"
    THEN last.op ELSE "none"

\* The command whose stop directly preceded the callback that directly
\* preceded.
PostedAfter(g) ==
    IF last.op = "callback" /\ last.g = g THEN last.kind ELSE "none"

\* Mutant of on_player_thread: the callback calls the body of play_next on
\* the player thread itself.
on_player_thread_Direct(g) == play_next(g, TRUE, FALSE)

\* What handle_playback_completion does to the queues and the transport
\* while it runs on the player thread (lines 63-75): nothing.  Line 73 makes
\* the coroutine object of play_next, whose body runs on the loop, and line
\* 75 blocks the thread until the loop has run it.
on_player_thread(g) == UNCHANGED <<queues, vc, orphans, hist>>

\* handle_playback_completion lines 63-73, on the player thread: the error
\* is logged and play_next is posted to the loop.
CallbackPost(g, err) ==
    /\ cbThread[g][err] > 0
    /\ cbThread' = [cbThread EXCEPT ![g][err] = @ - 1]
    /\ cbPosted' = [cbPosted EXCEPT ![g][err] = @ + PostsPerCompletion(err)]
    /\ on_player_thread(g)
    /\ Record([Ev("callback", g, "posted") EXCEPT !.err = err,
                                                  !.kind = StoppedBy(g)])
    /\ UNCHANGED <<volumes, cleanupPosted, owed, cmd, nextId>>

\* The loop runs a posted play_next; handle_playback_completion lines 74-80:
\* when it raised, cleanup_voice_client is posted.
RunPlayNext(g, err, accept) ==
    LET r == PlayNextResult(g, accept) IN
    /\ cbPosted[g][err] > 0
    /\ cbPosted' = [cbPosted EXCEPT ![g][err] = @ - 1]
    /\ play_next(g, accept, TRUE)
    /\ owed' = [owed EXCEPT ![g] = @ - 1]
    /\ cleanupPosted' = IF Raised(r) THEN [cleanupPosted EXCEPT ![g] = @ + 1]
                        ELSE cleanupPosted
    /\ Record([Ev("advance", g, r) EXCEPT !.err = err, !.pre = contended[g] > 0,
                                          !.kind = PostedAfter(g)])
    /\ UNCHANGED <<volumes, cbThread, cmd, nextId>>

\* queue_manager.cleanup_voice_client: stop when playing, then disconnect.
RunCleanup(g) ==
    /\ cleanupPosted[g] > 0
    /\ cleanupPosted' = [cleanupPosted EXCEPT ![g] = @ - 1]
    /\ IF vc[g].present
       THEN disconnect(g)
       ELSE UNCHANGED <<vc, cbThread, owed, cmd>>
    /\ Record(Ev("cleanup", g, IF vc[g].present THEN "disconnected" ELSE "no_client"))
    /\ UNCHANGED <<queues, volumes, orphans, cbPosted, nextId, hist>>

\* ------------------------------------------------------------------- URLs
\* A URL is "https://" followed by the parts of this sequence; the host is
\* what precedes the first "/watch".  The pattern of line 12 is matched
\* part by part.
UrlParts == {"music.", "youtube.com", "www.", "/watch"}
Urls == UNION {[1..n -> UrlParts] : n \in 1..MaxUrlLen}

\* ytdl_source.py lines 12-13.
MUSIC_YOUTUBE_PATTERN == <<"music.", "youtube.com">>
YOUTUBE_REPLACEMENT == <<"youtube.com">>

RECURSIVE Host(_)
Host(url) ==
    IF url = <<>> \/ Head(url) = "/watch" THEN <<>>
    ELSE <<Head(url)>> \o Host(Tail(url))

StartsWith(url, pattern) ==
    Len(url) >= Len(pattern) /\ SubSeq(url, 1, Len(pattern)) = pattern

\* re.search: the pattern occurs somewhere in the string.
re_search(pattern, url) ==
    \E i \in 1..Len(url) : StartsWith(SubSeq(url, i, Len(url)), pattern)

\* re.sub: every occurrence found in one pass from the left is replaced;
\* the replacement is not searched again.
RECURSIVE re_sub(_, _, _)
re_sub(pattern, repl, url) ==
    IF url = <<>> THEN <<>>
    ELSE IF StartsWith(url, pattern)
         THEN repl \o re_sub(pattern, repl, SubSeq(url, Len(pattern) + 1, Len(url)))
         ELSE <<Head(url)>> \o re_sub(pattern, repl, Tail(url))

\* Mutant of convert_music_youtube_url: the URL is returned as given.
convert_music_youtube_url_Unchanged(url) == url

\* ytdl_source.convert_music_youtube_url (lines 48-61).
convert_music_youtube_url(url) ==
    IF re_search(MUSIC_YOUTUBE_PATTERN, url)
    THEN re_sub(MUSIC_YOUTUBE_PATTERN, YOUTUBE_REPLACEMENT, url)
    ELSE url

\* YTDLSource.from_url(url, create_source=False) as a call of its own
\* (lines 234-273): the URL is converted and kept in the SongInfo; no
\* extractor is called.  The record holds the URL given, the URLs given to
\* an extractor and the URLs of the SongInfo objects returned.
ResolveUrl(g, url) ==
    LET converted == convert_music_youtube_url(url) IN
    /\ Record([url |-> url, sent |-> <<>>, stored |-> <<converted>>]
              @@ [Ev("from_url", g, "ok") EXCEPT !.kind = "single"])
    /\ UNCHANGED <<queues, volumes, vc, orphans, compl, cmd, nextId, hist>>

\* What the playlist extraction returns for a call of from_playlist on its
\* own: it raises, or gives a dict without entries, or one with an entry
\* that has a url.
ResolveData ==
    {[kind |-> k, entries |-> <<>>] : k \in {"raise", "single"}}
    \cup {[kind |-> "playlist", entries |-> <<"ok">>]}

\* YTDLSource.from_playlist(url, create_source=False) as a call of its own
\* (lines 276-406): the URL is converted and given to the playlist
\* extraction; a URL that is no playlist goes through from_url, which
\* converts what it is given once more; the SongInfo of a playlist entry
\* takes the URL the extractor put in the entry.
ResolvePlaylistUrl(g, url, data) ==
    LET converted == convert_music_youtube_url(url)
        r == from_playlist(data, 1, DEFAULT_VOLUME) IN
    /\ Record([url |-> url, sent |-> <<converted>>,
               stored |-> IF data.kind = "single"
                          THEN <<convert_music_youtube_url(converted)>>
                          ELSE <<>>]
              @@ [Ev("from_playlist", g, IF r.raised THEN "error" ELSE "ok")
                    EXCEPT !.kind = data.kind, !.added = r.sources])
    /\ UNCHANGED <<queues, volumes, vc, orphans, compl, cmd, nextId, hist>>

\* ------------------------------------------------------------------ search
\* The text given to the play command, as a sequence of pieces: a URL starts
\* with "https://", anything else is a search phrase.
QueryParts == {"https://", "http://", "lofi", "playlist"}
Queries == UNION {[1..n -> QueryParts] : n \in 1..MaxQueryLen}

\* What the YouTube API client does for search_youtube: there is none (the
\* authentication failed), the request raises, or it answers with the video
\* ids found, at most one as max_results is 1.
ApiOutcomes == {"unauthenticated", "raises", "empty", "v1", "v2"}

\* utils/youtube_api.search_youtube (lines 52-87): None without client or
\* after an exception, otherwise the list of the videos found with the URL
\* made for each at line 73.
search_youtube(api) ==
    IF api \in {"unauthenticated", "raises"}
    THEN [none |-> TRUE, items |-> <<>>]
    ELSE [none |-> FALSE,
          items |-> IF api = "empty" THEN <<>>
                    ELSE <<[id |-> api,
                            url |-> <<"https://", "www.youtube.com/watch?v=", api>>]>>]

\* Mutant of UseApiResult: only None is looked at, not the length.
UseApiResult_NotNone(videos) == ~videos.none

\* PlaybackCommands.play line 79: `videos and len(videos) > 0`.
UseApiResult(videos) == ~videos.none /\ Len(videos.items) > 0

\* PlaybackCommands.play line 71: `query.startswith("https://")`.
IsUrl(query) == Head(query) = "https://"

\* PlaybackCommands.play line 91: f"ytsearch:{query}".
Anonymous(query) == <<"ytsearch:">> \o query

\* PlaybackCommands.play lines 70-92 as a step of its own: the query that
\* goes on to resolution.  videos[0] of an empty list raises, which the
\* handler at line 164 reports and which ends the command.
\* The record holds the query given, the API outcome, whether the
\* authenticated search was called and the query resolved.
ResolveQuery(g, query, api) ==
    LET videos == search_youtube(api)
        searched == ~IsUrl(query)
        failed == searched /\ UseApiResult(videos) /\ videos.items = <<>>
        resolved == IF ~searched THEN query
                    ELSE IF failed THEN <<>>
                    ELSE IF UseApiResult(videos) THEN videos.items[1].url
                    ELSE Anonymous(query) IN
    /\ Record([query |-> query, api |-> api, searched |-> searched,
               resolved |-> resolved]
              @@ Ev("search", g, IF failed THEN "error"
                                 ELSE IF ~searched THEN "url"
                                 ELSE IF UseApiResult(videos) THEN "found"
                                 ELSE "anonymous"))
    /\ UNCHANGED <<queues, volumes, vc, orphans, compl, cmd, nextId, hist>>

\* ------------------------------------------------------------ create_source
\* SongInfo.data when create_source is called: None (from_url), the flat
\* dict of a playlist entry whose "url" key holds the entry's page URL, the
\* flat dict of an entry that has only "webpage_url", or the dict an earlier
\* extract_info stored, whose "url" key holds the media URL.
DataKinds == {"none", "entry_url", "entry_webpage", "extracted"}

\* What the extractor does when extract_info calls it: it raises, returns
\* None, returns a dict with the media URL, or returns a dict without it
\* and then, on the full extraction of the retry, one with it or None.
ExtractorOutcomes == {"raises", "none", "url", "nourl_then_url", "nourl_then_none"}

\* SongInfo.extract_info (lines 96-156): whether it raises.
extract_info_raises(ext) == ext \in {"raises", "none", "nourl_then_none"}

\* create_source line 175: `not self.data or (self.stream and "url" not in
\* self.data)`, with stream=True.
NeedsExtraction(data) == data \in {"none", "entry_webpage"}

\* YTDLSource.__init__ (lines 217-233) as create_source calls it (196-200):
\* the FFmpeg source of `filename` with the volume of the SongInfo.
YTDLSource(song, filename) ==
    [id |-> song.id, vol |-> song.vol, filename |-> filename]

\* SongInfo.create_source (lines 158-206) for a SongInfo with stream=True:
\* whether it raises, whether it called extract_info, and the stream it
\* returns.  filename is self.data.get("url"): the media URL when the data
\* came from an extraction, the page URL when it is a playlist entry's.
create_source(song, data, ext) ==
    LET extracts == NeedsExtraction(data)
        filename == IF extracts \/ data = "extracted" THEN "media_url" ELSE "page_url" IN
    IF extracts /\ extract_info_raises(ext)
    THEN [raised |-> TRUE, extracted |-> TRUE, source |-> NoTrack]
    ELSE [raised |-> FALSE, extracted |-> extracts, source |-> YTDLSource(song, filename)]

\* SongInfo.create_source as a call of its own, on a SongInfo with the
\* default volume.
CreateSource(g, data, ext) ==
    LET r == create_source(SongInfo(1, DEFAULT_VOLUME, IF data = "none" THEN 0 ELSE 1),
                           data, ext) IN
    /\ Record([data |-> data, ext |-> ext, extracted |-> r.extracted,
               source |-> r.source]
              @@ Ev("create_source", g, IF r.raised THEN "error" ELSE "ok"))
    /\ UNCHANGED <<queues, volumes, vc, orphans, compl, cmd, nextId, hist>>

\* ------------------------------------------------------------ specification
Next ==
    \/ \E g \in scope.guilds : Join(g)
    \/ \E g \in scope.guilds : Leave(g)
    \/ \E c \in scope.cmds, g \in scope.guilds, kind \in {"single", "playlist"} : PlayInvoke(c, g, kind)
    \/ \E c \in scope.cmds, usable \in BOOLEAN : PlaySingle(c, usable)
    \/ \E c \in scope.cmds : PlaylistCall(c)
    \/ \E c \in scope.cmds, data \in PlaylistData : PlaylistReturn(c, data)
    \/ \E c \in scope.cmds, accept \in BOOLEAN : PlayCheck(c, accept)
    \/ \E g \in scope.guilds : Pause(g)
    \/ \E g \in scope.guilds : Resume(g)
    \/ \E g \in scope.guilds : Stop(g)
    \/ \E g \in scope.guilds : Skip(g)
    \/ \E g \in scope.guilds : ClearQueue(g)
    \/ \E g \in scope.guilds, err \in BOOLEAN : TrackEnds(g, err)
    \/ \E g \in scope.guilds, err \in BOOLEAN : CallbackPost(g, err)
    \/ \E g \in scope.guilds, err \in BOOLEAN, accept \in BOOLEAN : RunPlayNext(g, err, accept)
    \/ \E g \in scope.guilds : RunCleanup(g)

Spec == Init /\ [][Next]_vars

\* The commands that only read or that set the volume, with the rest.
NextControls ==
    \/ Next
    \/ \E g \in scope.guilds : ShowQueue(g)
    \/ \E g \in scope.guilds : ShowVolume(g)
    \/ \E g \in scope.guilds, p \in VolumeInputs : Volume(g, p)

\* One guild, one track fewer, the outcome of every command recorded.
InitControls ==
    Start({"play", "pause", "resume", "stop", "skip", "clear", "queue",
           "volume", "show_volume", "callback", "advance"},
          [guilds |-> {"g1"}, tracks |-> MaxTracks - 1, cmds |-> OneAtATime])

SpecControls == InitControls /\ [][NextControls]_vars

\* The percentages given to the volume command in a run with two guilds:
\* one that is stored and one that is refused.
GuildVolumeInputs == {29, 101}

NextGuilds ==
    \/ Next
    \/ \E g \in scope.guilds : ShowQueue(g)
    \/ \E g \in scope.guilds : ShowVolume(g)
    \/ \E g \in scope.guilds, p \in GuildVolumeInputs : Volume(g, p)

\* Two guilds, one track fewer, no outcome recorded.
InitGuilds == Start({}, [guilds |-> Guilds, tracks |-> MaxTracks - 1, cmds |-> OneAtATime])

SpecGuilds == InitGuilds /\ [][NextGuilds]_vars

\* One guild, one track fewer, the appends of single songs recorded.
InitEnqueue ==
    Start({"play_append"}, [guilds |-> {"g1"}, tracks |-> MaxTracks - 1, cmds |-> OneAtATime])

SpecEnqueue == InitEnqueue /\ [][Next]_vars

\* Runs in which a track ends only because its voice client is
\* disconnected: join, leave, play, pause and resume are given, no stop or
\* skip, and no track reaches its end.  Every completion callback of such a
\* run is the one a disconnection caused.
NextLeave ==
    \/ \E g \in scope.guilds : Join(g)
    \/ \E g \in scope.guilds : Leave(g)
    \/ \E c \in scope.cmds, g \in scope.guilds, kind \in {"single", "playlist"} : PlayInvoke(c, g, kind)
    \/ \E c \in scope.cmds, usable \in BOOLEAN : PlaySingle(c, usable)
    \/ \E c \in scope.cmds : PlaylistCall(c)
    \/ \E c \in scope.cmds, data \in PlaylistData : PlaylistReturn(c, data)
    \/ \E c \in scope.cmds, accept \in BOOLEAN : PlayCheck(c, accept)
    \/ \E g \in scope.guilds : Pause(g)
    \/ \E g \in scope.guilds : Resume(g)
    \/ \E g \in scope.guilds, err \in BOOLEAN : CallbackPost(g, err)
    \/ \E g \in scope.guilds, err \in BOOLEAN, accept \in BOOLEAN : RunPlayNext(g, err, accept)
    \/ \E g \in scope.guilds : RunCleanup(g)

InitLeave ==
    Start({"leave", "advance"}, [guilds |-> {"g1"}, tracks |-> MaxTracks, cmds |-> OneAtATime])

SpecLeave == InitLeave /\ [][NextLeave]_vars

\* Runs in which two play commands of one guild overlap: while one is
\* suspended in the playlist extraction or in ctx.send, the other one and
\* the completion callbacks run.
InitOverlap ==
    Start({"playlist"}, [guilds |-> {"g1"}, tracks |-> MaxTracks, cmds |-> Cmds])

SpecOverlap == InitOverlap /\ [][Next]_vars

\* Runs for the progress of the queue: the guild is joined, play commands are
\* given, tracks reach their end without error and the completion path
\* runs.  No leave, pause, stop, skip or clear command is given.
NextLive ==
    \/ \E g \in scope.guilds : Join(g)
    \/ \E c \in scope.cmds, g \in scope.guilds, kind \in {"single", "playlist"} : PlayInvoke(c, g, kind)
    \/ \E c \in scope.cmds, usable \in BOOLEAN : PlaySingle(c, usable)
    \/ \E c \in scope.cmds : PlaylistCall(c)
    \/ \E c \in scope.cmds, data \in PlaylistData : PlaylistReturn(c, data)
    \/ \E c \in scope.cmds, accept \in BOOLEAN : PlayCheck(c, accept)
    \/ \E g \in scope.guilds : TrackEnds(g, FALSE)
    \/ \E g \in scope.guilds : CallbackPost(g, FALSE)
    \/ \E g \in scope.guilds, accept \in BOOLEAN : RunPlayNext(g, FALSE, accept)
    \/ \E g \in scope.guilds : RunCleanup(g)

InitLive ==
    Start({"play_check", "advance"}, [guilds |-> {"g1"}, tracks |-> MaxTracks, cmds |-> OneAtATime])

\* Scheduling: a suspended command is resumed when its await returns, the
\* player thread calls its callback, and the loop runs every coroutine
\* posted to it; every track that plays reaches its end.
FairLive ==
    /\ WF_vars(\E c \in scope.cmds, usable \in BOOLEAN : PlaySingle(c, usable))
    /\ WF_vars(\E c \in scope.cmds : PlaylistCall(c))
    /\ WF_vars(\E c \in scope.cmds, data \in PlaylistData : PlaylistReturn(c, data))
    /\ WF_vars(\E c \in scope.cmds, accept \in BOOLEAN : PlayCheck(c, accept))
    /\ WF_vars(\E g \in scope.guilds : TrackEnds(g, FALSE))
    /\ WF_vars(\E g \in scope.guilds : CallbackPost(g, FALSE))
    /\ WF_vars(\E g \in scope.guilds, accept \in BOOLEAN : RunPlayNext(g, FALSE, accept))
    /\ WF_vars(\E g \in scope.guilds : RunCleanup(g))

SpecLive == InitLive /\ [][NextLive]_vars /\ FairLive

\* The resolution functions of ytdl_source.py called on their own, on every
\* URL of the bound, and create_source on every kind of data: a run is one
\* call, whose result does not depend on any earlier call.
NextResolve ==
    \/ \E g \in scope.guilds, url \in Urls :
            last = Quiet /\ ResolveUrl(g, url)
    \/ \E g \in scope.guilds, url \in Urls, data \in ResolveData :
            last = Quiet /\ ResolvePlaylistUrl(g, url, data)
    \/ \E g \in scope.guilds, data \in DataKinds, ext \in ExtractorOutcomes :
            last = Quiet /\ CreateSource(g, data, ext)
    \/ \E g \in scope.guilds, query \in Queries, api \in ApiOutcomes :
            last = Quiet /\ ResolveQuery(g, query, api)

InitResolve ==
    Start({"from_url", "from_playlist", "create_source", "search"},
          [guilds |-> {"g1"}, tracks |-> 0, cmds |-> OneAtATime])

SpecResolve == InitResolve /\ [][NextResolve]_vars

\* ------------------------------------------------------------------ claims
\* The last n elements of a sequence.
Suffix(q, n) == SubSeq(q, Len(q) - n + 1, Len(q))

\* C1: after enqueue calls with no pop or clear in between, the guild's
\* queue ends with exactly the tracks they appended, in the order appended,
\* and the queue command lists one numbered line per queued track, the
\* lines of those tracks showing their titles in that order.
C1_InsertionOrder ==
    \A g \in Guilds :
        LET q == QueueOf(g)
            n == Len(enq[g])
            l == queue_info(g) IN
        /\ Len(q) >= n
        /\ Suffix(q, n) = enq[g]
        /\ Len(l) = Len(q)
        /\ \A i \in 1..n : l[Len(q) - n + i] = <<Len(q) - n + i, Title(enq[g][i])>>

\* Two play calls appended one track each behind a third that is active, and
\* nothing was popped in between.
C1_Witness ==
    \E g \in Guilds :
        /\ Alive(g)
        /\ Len(enq[g]) = 2
        /\ enq[g][1].id + 1 = enq[g][2].id
        /\ Len(queue_info(g)) = 2

\* C2: the tracks of a guild start in the order they were appended (ids
\* are given in append order): of two tracks that both started, the one
\* appended first started first.
C2_FifoOrder ==
    \A g \in Guilds :
        \A i, j \in DOMAIN started[g] : i < j => started[g][i] < started[g][j]

\* Three tracks have started on one guild.
C2_Witness == \E g \in Guilds : Len(started[g]) >= 3

C4_OneAdvancePerCompletion ==
    \A g \in Guilds : owed[g] = PendingAdvances(g)

\* A skip stopped the playing track and the play_next its completion
\* posted has run, leaving nothing pending.
C4_Witness ==
    /\ last.op = "advance"
    /\ PendingAdvances(last.g) = 0
    /\ owed[last.g] = 0
    /\ started[last.g] # <<>>

\* C5 (as claimed): a play_next posted by a completion callback that was
\* pending while another play_next popped a track and started it does not
\* pop a track too.
C5_SingleAdvancePops ==
    (last.op = "advance" /\ last.pre) => ~Popped(last.res)

\* Players of guild g that have not ended: the client's live player and the
\* paused players a later play() replaced.
ActivePlaybacks(g) == (IF Alive(g) THEN 1 ELSE 0) + orphans[g]

\* C6 (as claimed): a guild never has more than one player that is playing
\* or paused, hence never more than one completion callback to come.
C6_AtMostOneActive ==
    \A g \in Guilds : ActivePlaybacks(g) <= 1

\* C7 (as claimed): when play_next pops T and the transport cannot play it,
\* the guild stays connected and the advance goes on to the next track: it
\* does not end with tracks queued and nothing playing.
C7_FailedTrackSkipped ==
    (last.op \in {"play_check", "advance"} /\ last.res = "raised_source") =>
        /\ vc[last.g].present
        /\ cleanupPosted[last.g] = 0
        /\ (QueueOf(last.g) = <<>> \/ is_playing(last.g))

\* C8 (as claimed): the play_next run that follows a completion with an
\* error takes no track from the queue and starts none, and cleanup is on
\* its way or done.
C8_ErrorCompletionCleansUp ==
    (last.op = "advance" /\ last.err) =>
        /\ ~Popped(last.res)
        /\ (cleanupPosted[last.g] > 0 \/ ~vc[last.g].present)

\* Positions of the playlist entries that resolve / that fail.
OkPositions(entries) ==
    SelectSeq([i \in 1..Len(entries) |-> i], LAMBDA i : entries[i] = "ok")
FailedPositions(entries) ==
    SelectSeq([i \in 1..Len(entries) |-> i], LAMBDA i : entries[i] # "ok")

\* C9 (as claimed): a playlist of N entries of which K fail and at least one
\* resolves does not raise, yields the N-K tracks in playlist order and K
\* skip reasons, one per failed entry.
C9_PlaylistPartialFailure ==
    (last.op = "playlist" /\ last.kind = "playlist"
        /\ OkPositions(last.entries) # <<>>) =>
        /\ last.res = "added"
        /\ [i \in 1..Len(last.added) |-> last.added[i].entry] = OkPositions(last.entries)
        /\ last.skipped = FailedPositions(last.entries)

\* C10: when every entry of a playlist fails, resolution raises, no track
\* is created or appended, the command ends without reaching the start of
\* playback, and the transport is left as it was.
C10_AllFailedPlaylistRaises ==
    [][(last'.op = "playlist" /\ last'.kind = "playlist"
            /\ OkPositions(last'.entries) = <<>>) =>
        /\ last'.res = "error"
        /\ queues' = queues
        /\ nextId' = nextId
        /\ vc' = vc
        /\ started' = started
        /\ \A c \in Cmds : cmd'[c].pc = "added" => cmd[c].pc = "added"]_vars

\* A playlist of two entries, one without url and one the extractor
\* failed, has just been refused, with one skip reason.
C10_Witness ==
    /\ last.op = "playlist" /\ last.kind = "playlist"
    /\ last.entries = <<"nourl", "failed">>
    /\ last.res = "error"
    /\ last.skipped = <<1>>

\* C11 (as claimed): a volume command with a percentage p of 0..100 given
\* while a track is playing or paused sets the volume of the voice client's
\* source to p percent and stores p, and the volume command without
\* argument that directly follows shows p.
C11_VolumeRoundTrip ==
    /\ (last.op = "volume" /\ last.res = "set" /\ last.pre) =>
            /\ vc[last.g].source.vol = last.val
            /\ volumes[last.g] = last.val
    /\ (last.op = "show_volume" /\ last.pre) => last.val = volumes[last.g]

\* The registries, the voice clients and the completion path: everything
\* the program holds for its guilds.
program == <<queues, volumes, vc, orphans, compl>>

\* C12: on a connected guild, pause when the transport is not playing and
\* resume when it is not paused answer "nothing playing" and change neither
\* the queues, the volumes, the voice clients nor the completion path.
C12_NothingPlayingNoChange ==
    [][/\ (last'.op = "pause" /\ vc[last'.g].present /\ ~is_playing(last'.g)) =>
            (last'.res = "nothing_playing" /\ program' = program)
       /\ (last'.op = "resume" /\ vc[last'.g].present /\ ~is_paused(last'.g)) =>
            (last'.res = "nothing_playing" /\ program' = program)]_vars

\* Resume was just refused on a guild whose player has ended, with a track
\* still queued.
C12_Witness ==
    /\ last.op = "resume" /\ last.res = "nothing_playing"
    /\ vc[last.g].player = "ended"
    /\ QueueOf(last.g) # <<>>

\* C13 (as claimed): the play_next run that a skip of a playing track
\* causes (skip, completion callback and run follow each other directly)
\* removes the head of a non-empty queue and the transport plays it; with
\* an empty queue it sends the queue-empty message and nothing is playing
\* or paused.
C13_SkipStartsNext ==
    [][(last'.op = "advance" /\ last'.kind = "skip") =>
        IF QueueOf(last'.g) # <<>>
        THEN /\ queues'[last'.g] = Tail(queues[last'.g])
             /\ vc'[last'.g].player = "playing"
             /\ vc'[last'.g].source = Head(queues[last'.g])
        ELSE /\ last'.res = "queue_empty"
             /\ vc'[last'.g].player \notin {"playing", "paused"}]_vars

\* C14 (as claimed): stop and skip given while a track is playing or paused
\* stop the transport: afterwards no track is playing or paused and one more
\* completion callback is on its way.
C14_StopWhenPlayingOrPaused ==
    [][(last'.op \in {"stop", "skip"} /\ vc[last'.g].present /\ Alive(last'.g)) =>
        /\ last'.res = "ok"
        /\ vc'[last'.g].player \notin {"playing", "paused"}
        /\ cbThread'[last'.g][FALSE] = cbThread[last'.g][FALSE] + 1]_vars

\* C15 (as claimed): a stop command leaves every queue as it is, and the
\* play_next run it causes (stop, completion callback and run follow each
\* other directly) finds that queue and, when it is not empty, starts its
\* first track.
C15_StopKeepsQueue ==
    [][/\ (last'.op = "stop") => queues' = queues
       /\ (last'.op = "advance" /\ last'.kind = "stop" /\ QueueOf(last'.g) # <<>>) =>
            /\ queues'[last'.g] = Tail(queues[last'.g])
            /\ vc'[last'.g].player = "playing"
            /\ vc'[last'.g].source = Head(queues[last'.g])]_vars

\* C16: play, pause, resume, stop and skip given in a guild without voice
\* client answer "not connected" and change nothing: no queue or volume
\* entry is created or changed, no play command gets under way, no SongInfo
\* is made and nothing is started.
C16_NotConnectedNoChange ==
    [][(last'.op \in {"play", "pause", "resume", "stop", "skip"}
            /\ ~vc[last'.g].present) =>
        /\ last'.res = "not_connected"
        /\ program' = program
        /\ cmd' = cmd /\ nextId' = nextId /\ started' = started]_vars

\* A play command was just refused in a guild that has a volume entry, a
\* track queued and no voice client.
C16_Witness ==
    /\ last.op = "play" /\ last.res = "not_connected"
    /\ ~vc[last.g].present
    /\ last.g \in DOMAIN volumes
    /\ QueueOf(last.g) # <<>>

\* C17 (as claimed): a volume command with a percentage outside 0..100 is
\* refused and leaves the stored volumes, the set of guilds that have one,
\* and the voice clients' sources as they were.
C17_InvalidVolumeNoChange ==
    [][(last'.op = "volume" /\ ~ValidPercent(last'.val)) =>
        /\ last'.res = "rejected"
        /\ volumes' = volumes
        /\ vc' = vc]_vars

\* C18: the clear command leaves the guild with an empty queue (or none)
\* and changes neither the volumes, the voice clients and the tracks they
\* play or hold paused, nor the completion path: the current track goes on
\* and no completion callback is caused or lost.
C18_ClearKeepsPlayback ==
    [][(last'.op = "clear") =>
        /\ (last'.g \in DOMAIN queues' => queues'[last'.g] = <<>>)
        /\ volumes' = volumes
        /\ vc' = vc
        /\ orphans' = orphans
        /\ compl' = compl]_vars

\* The queue of a guild was just cleared while the first track was playing;
\* the second track was made and has not started.
C18_Witness ==
    /\ last.op = "clear" /\ last.res = "cleared"
    /\ is_playing(last.g)
    /\ QueueOf(last.g) = <<>>
    /\ started[last.g] = <<1>> /\ nextId = 3

\* C19 (as claimed): the volume command without argument and the queue
\* command change neither the queues, the volumes (nor the set of guilds
\* that have one), the voice clients nor the completion path; for a guild
\* without entries they show the default volume and an empty queue.
C19_ReadsChangeNothing ==
    [][(last'.op \in {"show_volume", "queue"}) =>
        /\ program' = program
        /\ (last'.op = "show_volume" /\ last'.g \notin DOMAIN volumes) =>
                last'.val = DEFAULT_VOLUME
        /\ (last'.op = "queue" /\ last'.g \notin DOMAIN queues) =>
                last'.res = "empty"]_vars

\* Everything the program holds for guild g: its queue and volume entries,
\* its voice client and players, its completion path and the play commands
\* under way in it.
GuildState(g) ==
    [queue   |-> IF g \in DOMAIN queues THEN <<queues[g]>> ELSE <<>>,
     volume  |-> IF g \in DOMAIN volumes THEN <<volumes[g]>> ELSE <<>>,
     voice   |-> vc[g],
     orphans |-> orphans[g],
     compl   |-> <<cbThread[g], cbPosted[g], cleanupPosted[g]>>,
     cmds    |-> {<<c, cmd[c]>> : c \in {d \in Cmds : cmd[d].pc # "idle" /\ cmd[d].g = g}}]

\* A step of an operation of guild g: a command given in it, a step of a
\* play command under way in it, the end of its track, its completion
\* callback, the play_next or cleanup posted for it.
StepOf(g) ==
    \/ Join(g) \/ Leave(g)
    \/ \E c \in Cmds, kind \in {"single", "playlist"} : PlayInvoke(c, g, kind)
    \/ \E c \in scope.cmds : cmd[c].g = g /\ cmd[c].pc # "idle" /\
            (\/ \E usable \in BOOLEAN : PlaySingle(c, usable)
             \/ PlaylistCall(c)
             \/ \E data \in PlaylistData : PlaylistReturn(c, data)
             \/ \E accept \in BOOLEAN : PlayCheck(c, accept))
    \/ Pause(g) \/ Resume(g) \/ Stop(g) \/ Skip(g) \/ ClearQueue(g)
    \/ ShowQueue(g) \/ ShowVolume(g)
    \/ \E p \in VolumeInputs : Volume(g, p)
    \/ \E err \in BOOLEAN : TrackEnds(g, err) \/ CallbackPost(g, err)
    \/ \E err \in BOOLEAN, accept \in BOOLEAN : RunPlayNext(g, err, accept)
    \/ RunCleanup(g)

\* C20: a step of an operation of one guild, failing or not, leaves what
\* the program holds for every other guild unchanged: no step that changes
\* what is held for guild b is a step of an operation of another guild.
C20_GuildIsolation ==
    [][\A b \in Guilds : GuildState(b)' # GuildState(b) =>
          \A a \in Guilds \ {b} : ~StepOf(a)]_vars

\* Both guilds have a voice client, a queue and a volume entry; one plays a
\* track at a volume of its own while a play command of the other has
\* appended a track and is about to start it.
C20_Witness ==
    \E a, b \in Guilds :
        /\ a # b
        /\ is_playing(a) /\ volumes[a] # DEFAULT_VOLUME
        /\ vc[b].present /\ b \in DOMAIN volumes /\ volumes[b] = DEFAULT_VOLUME
        /\ QueueOf(b) # <<>>
        /\ \E c \in scope.cmds : cmd[c].g = b /\ cmd[c].pc = "added"

\* C21: the completion callback, while it runs on the player thread, only
\* posts one play_next to the loop: it leaves the queues, the voice clients
\* and the record of started tracks as they are.  Every step that answers a
\* completion (pops a track or starts one on its behalf) is the run of a
\* posted play_next on the loop, and no callback is on its thread step then.
C21_CallbackOnlyPosts ==
    [][/\ (last'.op = "callback") =>
            /\ cbThread'[last'.g][last'.err] = cbThread[last'.g][last'.err] - 1
            /\ cbPosted'[last'.g][last'.err] = cbPosted[last'.g][last'.err] + 1
            /\ queues' = queues /\ vc' = vc /\ orphans' = orphans
            /\ started' = started
       /\ \A g \in Guilds : owed'[g] < owed[g] =>
            /\ last'.op = "advance" /\ last'.g = g
            /\ cbPosted'[g][last'.err] = cbPosted[g][last'.err] - 1
            /\ cbThread' = cbThread]_vars

\* The callback of a stopped track has just posted play_next while the guild
\* is connected, nothing is playing and a track is queued: the track is
\* still queued and not started.
C21_Witness ==
    /\ last.op = "callback"
    /\ vc[last.g].present /\ ~Alive(last.g)
    /\ QueueOf(last.g) # <<>>
    /\ cbPosted[last.g][FALSE] = 1

\* C22: from_url and from_playlist given a URL whose host is
\* music.youtube.com give the extractor, and keep in the SongInfo they
\* return, only URLs whose host is youtube.com: from_playlist gives the
\* extractor the converted URL, from_url gives it nothing, and the SongInfo
\* of a single video holds the converted URL.
C22_MusicHostReplaced ==
    (last.op \in {"from_url", "from_playlist"}
        /\ Host(last.url) = MUSIC_YOUTUBE_PATTERN) =>
        /\ \A i \in DOMAIN last.sent : Host(last.sent[i]) = YOUTUBE_REPLACEMENT
        /\ \A i \in DOMAIN last.stored : Host(last.stored[i]) = YOUTUBE_REPLACEMENT
        /\ last.op = "from_playlist" => Len(last.sent) = 1
        /\ (last.kind = "single" /\ last.res = "ok") => Len(last.stored) = 1

\* from_playlist was given a music.youtube.com URL of a single video: the
\* extractor got, and the SongInfo holds, the youtube.com URL with the same
\* path.
C22_Witness ==
    /\ last.op = "from_playlist" /\ last.kind = "single"
    /\ last.url = <<"music.", "youtube.com", "/watch">>
    /\ last.sent = << <<"youtube.com", "/watch">> >>
    /\ last.stored = << <<"youtube.com", "/watch">> >>

\* C23 (as claimed): a play command given a single video that is private,
\* deleted or for which the extractor returns nothing reports an error,
\* makes no SongInfo and appends nothing to the guild's queue.
C23_UnusableSingleRejected ==
    [][(last'.op = "play_append" /\ ~last'.usable) =>
        /\ last'.res = "error"
        /\ queues' = queues
        /\ nextId' = nextId]_vars

\* C24 (as claimed): a play command that reaches line 160 when the guild is
\* playing, paused or not connected, or when the queue held other tracks
\* than the ones it appended, takes no track from the queue and leaves the
\* voice client as it is: nothing is started.
C24_StartsOnlyWhenIdleAndEmpty ==
    [][(last'.op = "play_check" /\ ~last'.pre) =>
        /\ queues' = queues
        /\ vc' = vc
        /\ started' = started]_vars

\* C25 (as claimed): whatever the voice client holds as the source of its
\* player is a stream made by create_source from the track that was taken
\* from the queue, never the queued SongInfo itself.
C25_TransportGetsStream ==
    \A g \in Guilds :
        HasSource(g) =>
            \E filename \in {"media_url", "page_url"} :
                vc[g].source = YTDLSource(vc[g].source, filename)

\* C26 (as claimed): create_source calls extract_info for every SongInfo
\* whose data does not come from an extraction (no data, or the flat dict of
\* a playlist entry), and a stream it returns plays the media URL an
\* extraction gave.
C26_StreamFromExtraction ==
    (last.op = "create_source") =>
        /\ last.data # "extracted" => last.extracted
        /\ last.res = "ok" => last.source.filename = "media_url"

\* C27: every track a play command appends carries the volume of the guild
\* that the command read for it: for a single song the stored volume at the
\* step that appends it, for a playlist the stored volume when from_playlist
\* was called (line 107).  A track that stays in a queue keeps its volume
\* whatever happens, volume commands included.
C27_VolumeCapturedAtEnqueue ==
    [][/\ \A c \in Cmds :
            /\ (cmd[c].pc = "typing" /\ cmd'[c].pc = "extracting") =>
                    cmd'[c].vol = volumes[cmd[c].g]
            /\ (cmd[c].pc \in {"typing", "extracting"} /\ cmd'[c].pc = "added") =>
                    LET g == cmd[c].g
                        v == IF cmd[c].pc = "typing" THEN volumes[g] ELSE cmd[c].vol
                        mine == cmd'[c].mine IN
                    /\ mine # <<>>
                    /\ queues'[g] = queues[g] \o mine
                    /\ \A i \in DOMAIN mine : mine[i].vol = v
       /\ \A g \in Guilds :
            \A i \in DOMAIN QueueOf(g)', j \in DOMAIN QueueOf(g) :
                QueueOf(g)'[i].id = QueueOf(g)[j].id =>
                    QueueOf(g)'[i].vol = QueueOf(g)[j].vol]_vars

\* A volume command has just stored 29 while a track appended at the
\* default volume waits in the queue behind the one that plays.
C27_Witness ==
    /\ last.op = "volume" /\ last.res = "set" /\ last.val = 29
    /\ volumes[last.g] = 29
    /\ is_playing(last.g)
    /\ QueueOf(last.g) # <<>>
    /\ QueueOf(last.g)[1].vol = DEFAULT_VOLUME

\* C28 (as claimed): every track that starts playing starts at the volume
\* stored for its guild at that moment, also when the volume was changed
\* while the track was waiting in the queue.
C28_StartsAtGuildVolume ==
    [][\A g \in Guilds :
          started'[g] # started[g] => vc'[g].source.vol = volumes'[g]]_vars

\* C29: in every reachable state the volume stored for a guild, the volume
\* of every queued track, the volume a play command read for its playlist
\* and the volume of the source the voice client holds lie in 0..100
\* hundredths (0.0 to 1.0), whatever volume, show-volume and play commands
\* were given, the refused ones included.
C29_VolumesInRange ==
    /\ \A g \in DOMAIN volumes : 0 <= volumes[g] /\ volumes[g] <= 100
    /\ \A g \in DOMAIN queues : \A i \in DOMAIN queues[g] :
            0 <= queues[g][i].vol /\ queues[g][i].vol <= 100
    /\ \A c \in Cmds : 0 <= cmd[c].vol /\ cmd[c].vol <= 100
    /\ \A g \in Guilds : HasSource(g) =>
            0 <= vc[g].source.vol /\ vc[g].source.vol <= 100

\* The volume command has just refused 101 while the guild's stored volume
\* and the volume of the playing source are 100 and a track taken at the
\* default volume waits in the queue.
C29_Witness ==
    /\ last.op = "volume" /\ last.res = "rejected" /\ last.val = 101
    /\ volumes[last.g] = 100
    /\ is_playing(last.g) /\ vc[last.g].source.vol = 100
    /\ QueueOf(last.g) # <<>>
    /\ QueueOf(last.g)[1].vol = DEFAULT_VOLUME

\* C30 (as claimed): the volume a guild gets on first use lies between 10
\* and 50 hundredths, and the volume command without argument given in a
\* guild that has no volume entry shows that value.
C30_DefaultVolumeRange ==
    [][(last'.op = "show_volume" /\ last'.g \notin DOMAIN volumes) =>
        /\ 10 <= last'.val /\ last'.val <= 50
        /\ last'.val = volumes'[last'.g]]_vars

\* C31: for a text that does not start with "https://" the play command
\* calls the authenticated search; when that gives a video, the URL of the
\* first one is what goes on to resolution, and when there is no client,
\* the request raises or nothing is found, "ytsearch:" followed by the same
\* text goes on; the command is not ended by the search in any of these
\* cases.
C31_SearchFallback ==
    (last.op = "search" /\ ~IsUrl(last.query)) =>
        /\ last.searched
        /\ last.res # "error"
        /\ last.api \in {"v1", "v2"} =>
                last.resolved = <<"https://", "www.youtube.com/watch?v=", last.api>>
        /\ last.api \in {"unauthenticated", "raises", "empty"} =>
                last.resolved = <<"ytsearch:">> \o last.query

\* The search for a phrase of two words found nothing and the anonymous
\* form of the phrase goes on.
C31_Witness ==
    /\ last.op = "search" /\ last.api = "empty"
    /\ last.query = <<"lofi", "playlist">>
    /\ last.res = "anonymous"
    /\ last.resolved = <<"ytsearch:", "lofi", "playlist">>

\* C32 (as claimed): a leave command given while a track is playing or
\* paused leaves the guild without voice client and without a player that
\* is playing or paused, and the play_next run its completion callback
\* causes takes no track from the queue and starts none.  Runs of play_next
\* in which the transport refuses what it is handed are left aside.
C32_LeaveEndsPlayback ==
    [][/\ (last'.op = "leave" /\ Alive(last'.g)) =>
            /\ ~vc'[last'.g].present
            /\ vc'[last'.g].player \notin {"playing", "paused"}
            /\ queues' = queues
       /\ (last'.op = "advance" /\ last'.res # "raised_source") =>
            /\ queues' = queues
            /\ vc' = vc
            /\ started' = started]_vars

\* C33 (as claimed): no track is lost to a busy transport: a run of
\* play_next that takes a track from the queue, from a play command or from
\* a completion callback, never has voice_client.play raise because the
\* guild is already playing.
C33_NoTrackLost ==
    (last.op \in {"play_check", "advance"} /\ Popped(last.res)) =>
        last.res # "raised_busy"

\* C35: a run of play_next on a guild whose queue is non-empty and which has
\* no connected voice client, from a play command or from a completion
\* callback, takes nothing from the queue and starts no playback.
C35_NotConnectedNoPop ==
    [][(/\ last'.op \in {"play_check", "advance"}
        /\ last'.res # "not_started"
        /\ QueueOf(last'.g) # <<>>
        /\ ~(vc[last'.g].present /\ is_connected(last'.g))) =>
            /\ last'.res = "not_connected"
            /\ queues' = queues
            /\ vc' = vc
            /\ started' = started
            /\ orphans' = orphans]_vars

\* A completion callback's play_next has run on a guild that was left while
\* a track was still queued.
C35_Witness ==
    /\ last.op = "advance"
    /\ last.res = "not_connected"
    /\ QueueOf(last.g) # <<>>
    /\ ~vc[last.g].present

\* C36 (as claimed): when a run of play_next finds the queue empty and sends
\* "Queue is empty", no track is playing or paused on the guild's voice
\* client.
C36_QueueEmptyOnlyWhenIdle ==
    (last.op \in {"play_check", "advance"} /\ last.res = "queue_empty") =>
        ~Alive(last.g)

\* The tracks of `mine` that are in queue q lie next to each other there, in
\* the order they have in `mine`.
Block(q, mine) ==
    LET idx == {i \in 1..Len(q) : \E k \in 1..Len(mine) : mine[k] = q[i]} IN
    \/ idx = {}
    \/ /\ \A i \in idx, j \in idx, k \in 1..Len(q) : (i < k /\ k < j) => k \in idx
       /\ \E a \in 1..Len(mine) :
            LET lo == CHOOSE i \in idx : \A j \in idx : i <= j IN
            /\ a + Cardinality(idx) - 1 <= Len(mine)
            /\ SubSeq(q, lo, lo + Cardinality(idx) - 1)
                   = SubSeq(mine, a, a + Cardinality(idx) - 1)

\* Every playlist command that has appended its tracks and is suspended in
\* ctx.send has them in one block of the guild's queue.
PlaylistsInBlocks ==
    \A c \in Cmds :
        (cmd[c].pc = "added" /\ cmd[c].kind = "playlist") =>
            Block(QueueOf(cmd[c].g), cmd[c].mine)

\* C37: a playlist enqueue puts its tracks at the end of the guild's queue,
\* next to each other and in playlist order, and they stay one block in
\* playlist order while another play command of the guild appends and while
\* play_next runs from a command or from a completion callback.
C37_PlaylistContiguous ==
    [][/\ (last'.op = "playlist" /\ last'.res = "added") =>
            /\ queues'[last'.g] = QueueOf(last'.g) \o last'.added
            /\ \A i \in 1..Len(last'.added), j \in 1..Len(last'.added) :
                   i < j => last'.added[i].entry < last'.added[j].entry
       /\ PlaylistsInBlocks']_vars

\* Two play commands of one guild are suspended after their appends: the
\* single song of one is queued first and the two tracks of the other's
\* playlist follow it.
C37_Witness ==
    \E c \in Cmds, d \in Cmds :
        /\ cmd[c].pc = "added" /\ cmd[c].kind = "playlist" /\ Len(cmd[c].mine) = 2
        /\ cmd[d].pc = "added" /\ cmd[d].kind = "single" /\ cmd[d].g = cmd[c].g
        /\ QueueOf(cmd[c].g) = cmd[d].mine \o cmd[c].mine
        /\ last.op = "playlist"

\* Track i is in the queue of guild g; track i has started playing there.
Queued(g, i) == \E k \in 1..Len(QueueOf(g)) : QueueOf(g)[k].id = i
Started(g, i) == \E k \in 1..Len(started[g]) : started[g][k] = i

\* C34 (as claimed): in runs without clear command and without playback
\* error, in which every track that plays reaches its end, every track
\* appended to the queue of a guild that stays voice-connected from then on
\* eventually starts playing.
C34_QueuedEventuallyStarts ==
    \A i \in 1..MaxTracks :
        Queued("g1", i) ~> (Started("g1", i) \/ ~vc["g1"].present)

====
